---- MODULE Spec2Model ----
(***************************************************************************)
(* virtio-fs glue for FUSE (contrib/virtiofsd/fuse_virtio.c): the queue    *)
(* lifecycle (fv_queue_set_started), the per-queue worker                  *)
(* (fv_queue_thread), the reply path (virtio_send_msg), the scatter/gather *)
(* copies (copy_from_iov, copy_iov) and the control loop (virtio_loop).    *)
(*                                                                         *)
(* A buffer region (struct iovec) is the sequence of its bytes, iov_len    *)
(* being its length; a region list is a sequence of regions.  Allocations  *)
(* (malloc, calloc, realloc, pthread_create) are taken to succeed.         *)
(***************************************************************************)
EXTENDS Integers, Sequences, FiniteSets, TLC

\* ------------------------------------------------------------ constants

NULL == 0
InvalidFd == -1
InHeaderSize == 40
OutHeaderSize == 16
E2BIG == 7

\* --------------------------------------------------------------- bounds

\* se->bufsize, the session's buffer size contract
BufSize == 48
\* queue indices run over 0..MaxQidx
MaxQidx == 2
\* worker threads created in one run
MaxThreads == 2
\* descriptor chains popped in one run
MaxChains == 2
\* virtio_send_msg calls the session makes for one request
MaxReplies == 2

\* What one run is explored up to: many workers that find no chain to pop,
\* one worker with many chains and replies, or two workers that share one
\* chain and one reply
Budgets ==
    { [threads |-> MaxThreads, chains |-> 0, replies |-> 0],
      [threads |-> 1, chains |-> MaxChains, replies |-> MaxReplies],
      [threads |-> 2, chains |-> 1, replies |-> 1] }
\* regions per list and bytes per region of the copy_iov inputs
MaxSrcRegions == 2
MaxDstRegions == 3
MaxRegionLen == 2

\* ------------------------------------------------- scatter/gather copies

Min(a, b) == IF a < b THEN a ELSE b

\* iov_length(iov, count): the sum of the regions' iov_len
RECURSIVE iov_length(_)
iov_length(iov) ==
    IF iov = <<>> THEN 0 ELSE Len(Head(iov)) + iov_length(Tail(iov))

\* memcpy(mem + dest, base, n) on a buffer of Len(mem) bytes; bytes addressed
\* past the end of the buffer are not part of it
memcpy(mem, dest, base, n) ==
    [k \in 1..Len(mem) |->
        IF k > dest /\ k <= dest + n THEN base[k - dest] ELSE mem[k]]

\* copy_from_iov: each region in turn to dest, dest advancing by its length.
\* oob records a memcpy that ran past the end of buf->mem.
RECURSIVE copy_from_iov_loop(_, _, _, _)
copy_from_iov_loop(mem, dest, out_sg, oob) ==
    IF out_sg = <<>> THEN [mem |-> mem, oob |-> oob]
    ELSE LET onelen == Len(Head(out_sg))
         IN  copy_from_iov_loop(memcpy(mem, dest, Head(out_sg), onelen),
                                dest + onelen, Tail(out_sg),
                                oob \/ dest + onelen > Len(mem))

\* A flatten whose dest does not advance: every region lands at the start
RECURSIVE copy_from_iov_noadvance_loop(_, _, _)
copy_from_iov_noadvance_loop(mem, out_sg, oob) ==
    IF out_sg = <<>> THEN [mem |-> mem, oob |-> oob]
    ELSE LET onelen == Len(Head(out_sg))
         IN  copy_from_iov_noadvance_loop(memcpy(mem, 0, Head(out_sg), onelen),
                                          Tail(out_sg),
                                          oob \/ onelen > Len(mem))

copy_from_iov_noadvance(mem, out_sg) ==
    copy_from_iov_noadvance_loop(mem, out_sg, FALSE)

copy_from_iov(mem, out_sg) == copy_from_iov_loop(mem, 0, out_sg, FALSE)

\* The inner loop of copy_iov: the rest (src_len bytes from src_offset) of one
\* source region into the destination regions from dst_iov[di] at dst_offset.
\* failed is the line of the assertion that failed, 0 when none did.
RECURSIVE copy_iov_inner(_, _, _, _, _, _, _)
copy_iov_inner(src, src_offset, src_len, dst_iov, di, dst_offset, to_copy) ==
    IF src_len = 0
    THEN [dst_iov |-> dst_iov, di |-> di, dst_offset |-> dst_offset,
          to_copy |-> to_copy, failed |-> 0]
    ELSE IF di > Len(dst_iov)
    THEN [dst_iov |-> dst_iov, di |-> di, dst_offset |-> dst_offset,
          to_copy |-> to_copy, failed |-> 144]
    ELSE LET room    == Len(dst_iov[di]) - dst_offset
             dst_len == IF room > src_len THEN src_len ELSE room
             copied  == [dst_iov EXCEPT ![di] =
                            [k \in 1..Len(dst_iov[di]) |->
                                IF k > dst_offset /\ k <= dst_offset + dst_len
                                THEN src[src_offset + (k - dst_offset)]
                                ELSE dst_iov[di][k]]]
             off     == dst_offset + dst_len
         IN  IF off > Len(dst_iov[di])
             THEN [dst_iov |-> copied, di |-> di, dst_offset |-> off,
                   to_copy |-> to_copy - dst_len, failed |-> 158]
             ELSE IF off = Len(dst_iov[di])
             THEN copy_iov_inner(src, src_offset + dst_len, src_len - dst_len,
                                 copied, di + 1, 0, to_copy - dst_len)
             ELSE copy_iov_inner(src, src_offset + dst_len, src_len - dst_len,
                                 copied, di, off, to_copy - dst_len)

\* The outer loop of copy_iov: one source region per round.
RECURSIVE copy_iov_outer(_, _, _, _, _)
copy_iov_outer(src_iov, dst_iov, di, dst_offset, to_copy) ==
    IF to_copy = 0
    THEN [dst_iov |-> dst_iov, failed |-> 0]
    ELSE IF src_iov = <<>>
    THEN [dst_iov |-> dst_iov, failed |-> 133]
    ELSE LET src_len == Min(Len(Head(src_iov)), to_copy)
             r == copy_iov_inner(Head(src_iov), 0, src_len, dst_iov, di,
                                 dst_offset, to_copy)
         IN  IF r.failed # 0
             THEN [dst_iov |-> r.dst_iov, failed |-> r.failed]
             ELSE copy_iov_outer(Tail(src_iov), r.dst_iov, r.di,
                                 r.dst_offset, r.to_copy)

\* A copy_iov whose outer loop does not clip src_len to to_copy (lines
\* 137-139 left out).
RECURSIVE copy_iov_outer_noclip(_, _, _, _, _)
copy_iov_outer_noclip(src_iov, dst_iov, di, dst_offset, to_copy) ==
    IF to_copy = 0
    THEN [dst_iov |-> dst_iov, failed |-> 0]
    ELSE IF src_iov = <<>>
    THEN [dst_iov |-> dst_iov, failed |-> 133]
    ELSE LET r == copy_iov_inner(Head(src_iov), 0, Len(Head(src_iov)),
                                 dst_iov, di, dst_offset, to_copy)
         IN  IF r.failed # 0
             THEN [dst_iov |-> r.dst_iov, failed |-> r.failed]
             ELSE copy_iov_outer_noclip(Tail(src_iov), r.dst_iov, r.di,
                                        r.dst_offset, r.to_copy)

copy_iov_noclip(src_iov, dst_iov, to_copy) ==
    copy_iov_outer_noclip(src_iov, dst_iov, 1, 0, to_copy)

\* copy_iov(src_iov, src_count, dst_iov, dst_count, to_copy): the destination
\* regions afterwards, and the assertion that failed if one did
copy_iov(src_iov, dst_iov, to_copy) ==
    copy_iov_outer(src_iov, dst_iov, 1, 0, to_copy)

\* ------------------------------------------------------ inputs and state

\* n bytes of a region, told apart by the region's tag and their position
Bytes(tag, n) == [k \in 1..n |-> 64 * tag + k]

\* Regions of the given lengths, the r-th one tagged base + r
RegionsOf(base, lens) == [r \in 1..Len(lens) |-> Bytes(base + r, lens[r])]

\* Regions of the given lengths holding zeros ("in" space nothing was written to)
ZeroRegions(lens) == [r \in 1..Len(lens) |-> [k \in 1..lens[r] |-> 0]]

\* The descriptor chains a guest submits, as the lengths of their "out"
\* (request) and "in" (reply space) regions: two whose request the worker
\* does not take, and the requests it takes with each of the reply spaces
OutShapes == { <<24, 0, 16>>, <<BufSize>> }
InShapes == { <<OutHeaderSize - 1>>, <<OutHeaderSize>>, <<8, 0, 16>> }
Chains ==
    { [out |-> <<InHeaderSize - 1>>, in |-> <<OutHeaderSize>>],
      [out |-> <<BufSize, 1>>, in |-> <<OutHeaderSize>>] } \cup
    { [out |-> o, in |-> i] : o \in OutShapes, i \in InShapes }

\* The replies the session processor sends: the regions, the first one the
\* fuse_out_header, and that header's unique field
Replies ==
    { [iov |-> RegionsOf(100, <<OutHeaderSize>>), unique |-> 0],
      [iov |-> RegionsOf(100, <<OutHeaderSize>>), unique |-> 1],
      [iov |-> RegionsOf(100, <<OutHeaderSize, 8>>), unique |-> 1] }

\* What the loads elem->in_num and elem->in_sg give when elem is the null
\* pointer: the load faults and the process is killed
BadLoads ==
    { [fault |-> TRUE, id |-> NULL, in_sg |-> <<>>] }

\* The value of fbuf.mem before malloc, and a byte malloc returned unwritten
NoMem == <<>>
Uninit == -1

NoElem == [id |-> NULL, out_sg |-> <<>>, in_sg |-> <<>>]

\* No virtio_send_msg call yet for the element being processed
NoCall ==
    [made |-> FALSE, unique |-> 0, tosend_len |-> 0, elem |-> NULL,
     in_len |-> 0, ret |-> 0, ops |-> <<>>, died |-> 0]

VARIABLES
    nqueues,     \* vud->nqueues
    qi,          \* vud->qi: index -> record (a record's address) or NULL
    recs,        \* the fv_QueueInfo records, by address 1..Len(recs)
    thr,         \* the queue worker threads, by thread id 1..Len(thr)
    abort,       \* 0, or the source line at which the process died
    loop,        \* virtio_loop: "head", "ppoll" or "exit"
    nchains,     \* descriptor chains popped so far
    note,        \* the start/stop notification of this dispatch round
    notes,       \* per queue index > 0: its latest notification
    cp,          \* a copy_iov call on its own: inputs and result
    cap          \* the budget of this run, one of Budgets

vars ==
    <<nqueues, qi, recs, thr, abort, loop, nchains, note, notes, cp, cap>>

QIdx == 0..MaxQidx

NoCopy == [pc |-> "idle", src |-> <<>>, dst |-> <<>>, n |-> 0,
           out |-> <<>>, failed |-> 0]

\* No notification in this dispatch round; no notification yet for an index
NoNote == [qidx |-> -1, started |-> FALSE]
NoNotes == [last |-> "none", fd |-> InvalidFd]

\* After virtio_session_mount: virtio_dev is calloc'ed, no queue is started
Init ==
    /\ nqueues = 0
    /\ qi = <<>>
    /\ recs = <<>>
    /\ thr = <<>>
    /\ abort = 0
    /\ loop = "head"
    /\ nchains = 0
    /\ note = NoNote
    /\ notes = [i \in 1..MaxQidx |-> NoNotes]
    /\ cp = NoCopy
    /\ cap \in Budgets

\* ------------------------------------------- queue lifecycle (callback)

\* A record whose in-progress reference is left as allocated, not cleared,
\* and holds the address of the first element popped
NewRecordQeStale(qidx) ==
    [qidx |-> qidx, kick_fd |-> 0, thread |-> 0, qe |-> 1]

\* calloc(sizeof(struct fv_QueueInfo), 1), then virtio_dev and qidx set
NewRecord(qidx) ==
    [qidx |-> qidx, kick_fd |-> 0, thread |-> 0, qe |-> NULL]

\* The locals of fv_queue_thread before its loop: fbuf.mem = NULL, ch.qi = qi
NewThread(rec) ==
    [qi |-> rec, pc |-> "top", pf_fd |-> InvalidFd, rd_fd |-> InvalidFd,
     mem |-> NoMem,
     size |-> 0, nmalloc |-> 0, elem |-> NoElem, nsend |-> 0, npush |-> 0,
     call |-> NoCall]

\* A table growth that clears from the start of the array, not from the old
\* length
GrowTableClearAll(tbl, n, qidx) ==
    IF qidx >= n
    THEN [qi |-> [i \in 0..qidx |-> NULL], nqueues |-> qidx + 1]
    ELSE [qi |-> tbl, nqueues |-> n]

\* realloc to qidx + 1 entries, memset of the entries from the old length on,
\* nqueues = qidx + 1; nothing when qidx is within the table
GrowTable(tbl, n, qidx) ==
    IF qidx >= n
    THEN [qi |-> [i \in 0..qidx |-> IF i < n THEN tbl[i] ELSE NULL],
          nqueues |-> qidx + 1]
    ELSE [qi |-> tbl, nqueues |-> n]

\* A stop that leaves the kick handle as it is
MarkStoppedNot(rec) == rec

\* ourqi->kick_fd = -1
MarkStopped(rec) == [rec EXCEPT !.kick_fd = InvalidFd]

\* dev->vq[qidx].kick_fd at the k-th start that creates a worker: descriptors
\* 0..2 are the standard streams, and each start brings a handle of its own
DeviceKickFd(k) == k + 2

\* Whether the start of qidx gets as far as pthread_create
StartCreatesThread(qidx) ==
    \/ qidx >= nqueues
    \/ qi[qidx] = NULL
    \/ recs[qi[qidx]].kick_fd = InvalidFd

\* fv_queue_set_started(dev, qidx, true), qidx > 0, kick_fd being
\* dev->vq[qidx].kick_fd
StartQueue(qidx, kick_fd) ==
    LET g     == GrowTable(qi, nqueues, qidx)
        fresh == g.qi[qidx] = NULL
        addr  == IF fresh THEN Len(recs) + 1 ELSE g.qi[qidx]
        recs1 == IF fresh THEN Append(recs, NewRecord(qidx)) ELSE recs
        tid   == Len(thr) + 1
    IN  /\ nqueues' = g.nqueues
        /\ qi' = [g.qi EXCEPT ![qidx] = addr]
        /\ IF ~fresh /\ recs[addr].kick_fd # InvalidFd
           THEN /\ abort' = 378
                /\ UNCHANGED <<recs, thr>>
           ELSE /\ recs' = [recs1 EXCEPT ![addr].kick_fd = kick_fd,
                                         ![addr].thread = tid]
                /\ thr' = Append(thr, NewThread(addr))
                /\ UNCHANGED abort

\* fv_queue_set_started(dev, qidx, false), qidx > 0.  With no record at qidx
\* the store through the null ourqi faults and the process is killed.
StopQueue(qidx) ==
    /\ UNCHANGED <<nqueues, qi, thr>>
    /\ IF qidx >= nqueues
       THEN abort' = 390 /\ UNCHANGED recs
       ELSE IF qi[qidx] = NULL
       THEN abort' = 392 /\ UNCHANGED recs
       ELSE /\ recs' = [recs EXCEPT ![qi[qidx]] = MarkStopped(recs[qi[qidx]])]
            /\ UNCHANGED abort

\* A test that takes no index for the notification queue
IsNotificationQueueNever(qidx) == FALSE

\* if (qidx == 0): the notification queue
IsNotificationQueue(qidx) == qidx = 0

\* fv_queue_set_started: queue 0 is the notification queue, nothing is done
fv_queue_set_started(qidx, started, kick_fd) ==
    IF IsNotificationQueue(qidx)
    THEN UNCHANGED <<nqueues, qi, recs, thr, abort>>
    ELSE IF started THEN StartQueue(qidx, kick_fd) ELSE StopQueue(qidx)

\* The notification record after a notification for qidx: its kind and the
\* device's kick handle at that time
Noted(qidx, kind, fd) ==
    IF qidx = 0 THEN notes
    ELSE [notes EXCEPT ![qidx] = [last |-> kind, fd |-> fd]]

\* ------------------------------------------------ control loop (one thread)

\* The process runs until an assertion fails, a load or store faults, or
\* fv_panic calls exit; the workers run on after virtio_loop has returned
Running == abort = 0

\* while (!fuse_session_exited(se)), session_exited being what the call gives
LoopHead(session_exited) ==
    /\ Running /\ loop = "head"
    /\ loop' = IF session_exited THEN "exit" ELSE "ppoll"
    /\ note' = NoNote
    /\ UNCHANGED <<nqueues, qi, recs, thr, abort, nchains, notes, cp, cap>>

\* A control loop that ends at every failed ppoll
OnLoopPollErrorLeave(eintr) == "exit"

\* poll_res == -1 in virtio_loop: continue when errno == EINTR, else break
OnLoopPollError(eintr) == IF eintr THEN "head" ELSE "exit"

\* ppoll fails: interrupted (go around), or another error (leave)
LoopPollError(eintr) ==
    /\ Running /\ loop = "ppoll"
    /\ loop' = OnLoopPollError(eintr)
    /\ UNCHANGED <<nqueues, qi, recs, thr, abort, nchains, note, notes, cp, cap>>

\* revents has POLLERR, POLLHUP or POLLNVAL
LoopPollHup ==
    /\ Running /\ loop = "ppoll"
    /\ loop' = "exit"
    /\ UNCHANGED <<nqueues, qi, recs, thr, abort, nchains, note, notes, cp, cap>>

\* vu_dispatch fails
DispatchFail ==
    /\ Running /\ loop = "ppoll"
    /\ loop' = "exit"
    /\ UNCHANGED <<nqueues, qi, recs, thr, abort, nchains, note, notes, cp, cap>>

\* vu_dispatch calls the panic callback: fv_panic prints and calls
\* exit(EXIT_FAILURE), which ends the process inside vu_dispatch
DispatchPanic ==
    /\ Running /\ loop = "ppoll"
    /\ abort' = 103
    /\ UNCHANGED <<nqueues, qi, recs, thr, loop, nchains, note, notes, cp, cap>>

\* vu_dispatch handles a message that starts or stops no queue
DispatchOther ==
    /\ Running /\ loop = "ppoll"
    /\ loop' = "head"
    /\ UNCHANGED <<nqueues, qi, recs, thr, abort, nchains, note, notes, cp, cap>>

\* Where virtio_loop is after vu_dispatch has called the callback: back at its
\* head when the callback returned, still inside vu_dispatch when the process
\* ended in the callback
AfterCallback(died) == IF died = 0 THEN "head" ELSE "ppoll"

\* vu_dispatch handles a message that starts a queue: the callback with
\* started = true
DispatchStart(qidx) ==
    /\ Running /\ loop = "ppoll"
    /\ (qidx > 0 /\ StartCreatesThread(qidx)) => Len(thr) < cap.threads
    /\ fv_queue_set_started(qidx, TRUE, DeviceKickFd(Len(thr) + 1))
    /\ note' = [qidx |-> qidx, started |-> TRUE]
    /\ notes' = Noted(qidx, "start", DeviceKickFd(Len(thr) + 1))
    /\ loop' = AfterCallback(abort')
    /\ UNCHANGED <<nchains, cp, cap>>

\* vu_dispatch handles a message that stops a queue: the callback with
\* started = false
DispatchStop(qidx) ==
    /\ Running /\ loop = "ppoll"
    /\ fv_queue_set_started(qidx, FALSE, InvalidFd)
    /\ note' = [qidx |-> qidx, started |-> FALSE]
    /\ notes' = Noted(qidx, "stop", InvalidFd)
    /\ loop' = AfterCallback(abort')
    /\ UNCHANGED <<nchains, cp, cap>>

\* ------------------------------------------------------------ reply path

\* A unique check that lets every reply through
UniqueOkAny(unique) == TRUE

\* assert(out->unique): unique == 0 is a notification, which is not supported
UniqueOk(unique) == unique # 0

\* The two size checks of virtio_send_msg: the "in" space holds a
\* fuse_out_header, and holds the whole reply
ReplyTooLarge(in_len, tosend_len) ==
    in_len < OutHeaderSize \/ in_len < tosend_len

SendResult(died, ret, in_sg, ops, in_len) ==
    [died |-> died, ret |-> ret, in_sg |-> in_sg, ops |-> ops,
     in_len |-> in_len]

\* virtio_send_msg(se, ch, iov, count), e being what ch->qi->qe gives when its
\* in_num and in_sg are loaded.  died: the line of a failed assertion or of
\* the faulting load; ret: the return value; in_sg: e's "in" regions
\* afterwards; ops: the copy, push and notify done, in order.
virtio_send_msg(iov, unique, e, panic) ==
    IF Len(iov) < 1 THEN SendResult(180, 0, e.in_sg, <<>>, 0)
    ELSE IF Len(iov[1]) < OutHeaderSize
    THEN SendResult(181, 0, e.in_sg, <<>>, 0)
    ELSE IF ~UniqueOk(unique) THEN SendResult(189, 0, e.in_sg, <<>>, 0)
    ELSE IF e.fault THEN SendResult(196, 0, e.in_sg, <<>>, 0)
    ELSE LET tosend_len == iov_length(iov)
             in_len     == iov_length(e.in_sg)
         IN  IF ReplyTooLarge(in_len, tosend_len)
             THEN SendResult(0, -E2BIG, e.in_sg, <<>>, in_len)
             ELSE LET c == copy_iov(iov, e.in_sg, tosend_len)
                  IN  IF c.failed # 0
                      THEN SendResult(c.failed, 0, c.dst_iov,
                                      <<[op |-> "copy", elem |-> e.id,
                                         len |-> tosend_len]>>,
                                      in_len)
                      ELSE IF panic = "push"
                      THEN SendResult(103, 0, c.dst_iov,
                                      <<[op |-> "copy", elem |-> e.id,
                                         len |-> tosend_len]>>,
                                      in_len)
                      ELSE IF panic = "notify"
                      THEN SendResult(103, 0, c.dst_iov,
                                      <<[op |-> "copy", elem |-> e.id,
                                         len |-> tosend_len],
                                        [op |-> "push", elem |-> e.id,
                                         len |-> tosend_len]>>,
                                      in_len)
                      ELSE SendResult(0, 0, c.dst_iov,
                                      <<[op |-> "copy", elem |-> e.id,
                                         len |-> tosend_len],
                                        [op |-> "push", elem |-> e.id,
                                         len |-> tosend_len],
                                        [op |-> "notify", elem |-> e.id,
                                         len |-> 0]>>,
                                      in_len)

\* Where libvhost-user calls the panic callback in a virtio_send_msg call that
\* gets that far: nowhere, inside vu_queue_push, or inside vu_queue_notify
Panics == {"none", "push", "notify"}

\* The number of vu_queue_push calls among ops
Pushes(ops) == Cardinality({k \in DOMAIN ops : ops[k].op = "push"})

\* The threads whose local elem is the element at address p (none once freed)
Holders(p) == {u \in DOMAIN thr : p # NULL /\ thr[u].elem.id = p}

\* The session processor, running in worker t's fuse_session_process_buf_int
\* call, sends a reply: virtio_send_msg with ch = the worker's channel.  The
\* element is the one ch->qi->qe points to; with a null qe the loads of
\* elem->in_num and elem->in_sg fault (bad).
SendReply(t, reply, bad, panic) ==
    /\ Running
    /\ thr[t].pc = "session"
    /\ thr[t].nsend < cap.replies
    /\ LET qe   == recs[thr[t].qi].qe
           live == Holders(qe) # {}
           e    == IF live
                   THEN LET u == CHOOSE u \in Holders(qe) : TRUE
                        IN  [fault |-> FALSE, id |-> qe,
                             in_sg |-> thr[u].elem.in_sg]
                   ELSE bad
           r    == virtio_send_msg(reply.iov, reply.unique, e, panic)
           obs  == [made |-> TRUE, unique |-> reply.unique,
                    tosend_len |-> iov_length(reply.iov), elem |-> qe,
                    in_len |-> r.in_len, ret |-> r.ret, ops |-> r.ops,
                    died |-> r.died]
       IN  /\ thr' = [u \in DOMAIN thr |->
                        LET w == IF u \in Holders(qe)
                                 THEN [thr[u] EXCEPT !.elem.in_sg = r.in_sg]
                                 ELSE thr[u]
                        IN  IF u = t
                            THEN [w EXCEPT !.nsend = @ + 1,
                                           !.npush = @ + Pushes(r.ops),
                                           !.call = obs]
                            ELSE w]
           /\ abort' = r.died
    /\ UNCHANGED <<nqueues, qi, recs, loop, nchains, note, notes, cp, cap>>

\* ----------------------------------------------------------- queue worker

\* The top of the worker's loop: pf[0].fd = qi->kick_fd, then into ppoll
WorkerTop(t) ==
    /\ Running
    /\ thr[t].pc = "top"
    /\ thr' = [thr EXCEPT ![t].pf_fd = recs[thr[t].qi].kick_fd,
                          ![t].pc = "ppoll"]
    /\ UNCHANGED <<nqueues, qi, recs, abort, loop, nchains, note, notes, cp, cap>>

\* The worker leaves its loop: free(fbuf.mem), return; its locals are gone
Stopped(w) ==
    [w EXCEPT !.pc = "stopped", !.mem = NoMem, !.pf_fd = InvalidFd,
              !.rd_fd = InvalidFd]

\* A worker that leaves its loop at every failed ppoll
OnPollErrorLeave(w, eintr) == Stopped(w)

\* poll_res == -1: continue when errno == EINTR, break otherwise
OnPollError(w, eintr) == IF eintr THEN [w EXCEPT !.pc = "top"] ELSE Stopped(w)

\* ppoll fails: interrupted (go around), or another error (leave the loop)
WorkerPollError(t, eintr) ==
    /\ Running
    /\ thr[t].pc = "ppoll"
    /\ thr' = [thr EXCEPT ![t] = OnPollError(@, eintr)]
    /\ UNCHANGED <<nqueues, qi, recs, abort, loop, nchains, note, notes, cp, cap>>

\* revents has POLLERR, POLLHUP or POLLNVAL (ppoll ignores a negative fd)
WorkerPollHup(t) ==
    /\ Running
    /\ thr[t].pc = "ppoll"
    /\ thr[t].pf_fd # InvalidFd
    /\ thr' = [thr EXCEPT ![t] = Stopped(@)]
    /\ UNCHANGED <<nqueues, qi, recs, abort, loop, nchains, note, notes, cp, cap>>

\* ppoll returns with POLLIN on the polled handle: the worker loads
\* qi->kick_fd and enters eventfd_read on it, a read that blocks while the
\* handle's counter is zero
WorkerPollIn(t) ==
    /\ Running
    /\ thr[t].pc = "ppoll"
    /\ thr[t].pf_fd # InvalidFd
    /\ thr' = [thr EXCEPT ![t].pc = "read",
                          ![t].rd_fd = recs[thr[t].qi].kick_fd]
    /\ UNCHANGED <<nqueues, qi, recs, abort, loop, nchains, note, notes, cp, cap>>

\* eventfd_read returns: it fails on the invalid handle and may fail on a
\* valid one; after a good read the worker drains the queue if
\* vu_queue_get_avail_bytes reports "out" bytes (out_bytes_seen), and goes
\* around if not
WorkerRead(t, read_ok, out_bytes_seen) ==
    /\ Running
    /\ thr[t].pc = "read"
    /\ thr' = [thr EXCEPT ![t] =
                 IF thr[t].rd_fd = InvalidFd \/ ~read_ok
                 THEN Stopped(@)
                 ELSE [@ EXCEPT !.pc = IF out_bytes_seen THEN "pop" ELSE "top",
                                !.rd_fd = InvalidFd]]
    /\ UNCHANGED <<nqueues, qi, recs, abort, loop, nchains, note, notes, cp, cap>>

\* libvhost-user calls the panic callback inside vu_queue_get_avail_bytes
\* (after a good read) or inside vu_queue_pop: fv_panic calls
\* exit(EXIT_FAILURE), wherever virtio_loop is
WorkerPanic(t) ==
    /\ Running
    /\ \/ thr[t].pc = "pop"
       \/ thr[t].pc = "read" /\ thr[t].rd_fd # InvalidFd
    /\ abort' = 103
    /\ UNCHANGED <<nqueues, qi, recs, thr, loop, nchains, note, notes, cp, cap>>

\* vu_queue_pop returns NULL: no element is ready, back to waiting
WorkerPopNone(t) ==
    /\ Running
    /\ thr[t].pc = "pop"
    /\ thr' = [thr EXCEPT ![t].pc = "top"]
    /\ UNCHANGED <<nqueues, qi, recs, abort, loop, nchains, note, notes, cp, cap>>

\* A buffer test that asks for a new buffer at every element
NeedsBufferAlways(mem) == TRUE

\* if (!fbuf.mem): the request buffer is allocated when there is none yet
NeedsBuffer(mem) == mem = NoMem

\* An "out" length check that accepts every length
OutLenCheckNone(out_len) == 0

\* An "out" length check that has no upper limit
OutLenCheckNoMax(out_len) == IF out_len < InHeaderSize THEN 317 ELSE 0

\* The two checks of the element's "out" length: the line of the assert(0)
\* reached, 0 when the element is accepted
OutLenCheck(out_len) ==
    IF out_len < InHeaderSize THEN 317
    ELSE IF out_len > BufSize THEN 322
    ELSE 0

\* The element vu_queue_pop returns: the guest's descriptors as they are read
\* at the pop, the id standing for the element's address
PoppedElem(id, out_lens, in_lens) ==
    [id |-> id, out_sg |-> RegionsOf(4 * id, out_lens),
     in_sg |-> ZeroRegions(in_lens)]

\* vu_queue_pop returns an element: the request buffer is allocated if this
\* is the first one, the "out" length is checked, the "out" regions are
\* flattened into the buffer, and the session processor is entered
WorkerPop(t, out_lens, in_lens) ==
    /\ Running
    /\ thr[t].pc = "pop"
    /\ nchains < cap.chains
    /\ nchains' = nchains + 1
    /\ LET w       == thr[t]
           elem    == PoppedElem(nchains + 1, out_lens, in_lens)
           fresh   == NeedsBuffer(w.mem)
           mem1    == IF fresh THEN [k \in 1..BufSize |-> Uninit] ELSE w.mem
           w1      == [w EXCEPT !.elem = elem, !.mem = mem1,
                                !.nmalloc = IF fresh THEN @ + 1 ELSE @,
                                !.nsend = 0, !.npush = 0, !.call = NoCall]
           out_len == iov_length(elem.out_sg)
           bad     == OutLenCheck(out_len)
           flat    == copy_from_iov(mem1, elem.out_sg)
       IN  IF fresh /\ ~(BufSize > InHeaderSize)
           THEN thr' = [thr EXCEPT ![t] = w1] /\ abort' = 301
           ELSE IF bad # 0
           THEN thr' = [thr EXCEPT ![t] = w1] /\ abort' = bad
           ELSE /\ thr' = [thr EXCEPT ![t] =
                            [w1 EXCEPT !.mem = flat.mem, !.size = out_len,
                                       !.pc = "session"]]
                /\ abort' = IF flat.oob THEN 116 ELSE 0
    /\ UNCHANGED <<nqueues, qi, recs, loop, note, notes, cp, cap>>

\* A worker that goes back to waiting after one element
AfterSessionToWait(w) ==
    [w EXCEPT !.elem = NoElem, !.nsend = 0, !.npush = 0, !.call = NoCall,
              !.pc = "top"]

\* The worker after the session call: free(elem), elem = NULL, and around the
\* inner while (1) to the next vu_queue_pop
AfterSession(w) ==
    [w EXCEPT !.elem = NoElem, !.nsend = 0, !.npush = 0, !.call = NoCall,
              !.pc = "pop"]

\* fuse_session_process_buf_int returns: qi->qe = NULL, free(elem)
WorkerSessionReturn(t) ==
    /\ Running
    /\ thr[t].pc = "session"
    /\ recs' = [recs EXCEPT ![thr[t].qi].qe = NULL]
    /\ thr' = [thr EXCEPT ![t] = AfterSession(@)]
    /\ UNCHANGED <<nqueues, qi, abort, loop, nchains, note, notes, cp, cap>>

\* ------------------------------------------------------- the whole program

\* One step of the control loop or of a worker.  For WorkerPop and SendReply
\* the part of the guard that does not depend on the inputs is repeated before
\* the inputs are drawn.
Next ==
    \/ \E session_exited \in BOOLEAN : LoopHead(session_exited)
    \/ \E eintr \in BOOLEAN : LoopPollError(eintr)
    \/ LoopPollHup
    \/ DispatchFail
    \/ DispatchPanic
    \/ DispatchOther
    \/ \E qidx \in QIdx : DispatchStart(qidx)
    \/ \E qidx \in QIdx : DispatchStop(qidx)
    \/ \E t \in DOMAIN thr : WorkerTop(t)
    \/ \E t \in DOMAIN thr, eintr \in BOOLEAN : WorkerPollError(t, eintr)
    \/ \E t \in DOMAIN thr : WorkerPollHup(t)
    \/ \E t \in DOMAIN thr : WorkerPollIn(t)
    \/ \E t \in DOMAIN thr, read_ok \in BOOLEAN, out_bytes_seen \in BOOLEAN :
          WorkerRead(t, read_ok, out_bytes_seen)
    \/ \E t \in DOMAIN thr : WorkerPopNone(t)
    \/ \E t \in DOMAIN thr :
          /\ thr[t].pc = "pop" /\ nchains < cap.chains
          /\ \E c \in Chains : WorkerPop(t, c.out, c.in)
    \/ \E t \in DOMAIN thr :
          /\ thr[t].pc = "session" /\ thr[t].nsend < cap.replies
          /\ \E reply \in Replies, bad \in BadLoads, panic \in Panics :
                SendReply(t, reply, bad, panic)
    \/ \E t \in DOMAIN thr : WorkerPanic(t)
    \/ \E t \in DOMAIN thr : WorkerSessionReturn(t)

Spec == Init /\ [][Next]_vars

\* The steps worker t takes on its own once it is scheduled: from the top of
\* its loop into ppoll, the pop, and the return of the session call.  What
\* ppoll and eventfd_read give depends on the guest and the kernel.
WorkerRuns(t) ==
    /\ t \in DOMAIN thr
    /\ \/ WorkerTop(t)
       \/ WorkerPopNone(t)
       \/ \E c \in Chains : WorkerPop(t, c.out, c.in)
       \/ WorkerSessionReturn(t)

\* The program with every thread scheduled: a worker that can take a step of
\* its own takes one, and virtio_loop evaluates its loop condition
SpecFair ==
    /\ Init /\ [][Next]_vars
    /\ \A t \in 1..MaxThreads : WF_vars(WorkerRuns(t))
    /\ WF_vars(\E session_exited \in BOOLEAN : LoopHead(session_exited))

\* ------------------------------------------------ copy_iov on its own

\* The region lists of at most n regions of at most MaxRegionLen bytes, as
\* the sequences of their lengths
RECURSIVE Shapes(_)
Shapes(n) ==
    IF n = 0 THEN { <<>> }
    ELSE Shapes(n - 1) \cup
         { Append(s, l) : s \in { x \in Shapes(n - 1) : Len(x) = n - 1 },
                          l \in 0..MaxRegionLen }

\* The byte counts tried: up to one more than the longest source
CopyCounts == 0..(MaxSrcRegions * MaxRegionLen + 1)

\* A call of copy_iov about to be made: source regions with bytes that tell
\* region and position apart, destination regions with other bytes, a count
CopyInputs ==
    { [pc |-> "call", src |-> RegionsOf(0, s), dst |-> RegionsOf(32, d),
       n |-> n, out |-> <<>>, failed |-> 0] :
         s \in Shapes(MaxSrcRegions), d \in Shapes(MaxDstRegions),
         n \in CopyCounts }

InitCopy ==
    /\ nqueues = 0
    /\ qi = <<>>
    /\ recs = <<>>
    /\ thr = <<>>
    /\ abort = 0
    /\ loop = "head"
    /\ nchains = 0
    /\ note = NoNote
    /\ notes = [i \in 1..MaxQidx |-> NoNotes]
    /\ cap = [threads |-> 0, chains |-> 0, replies |-> 0]
    /\ cp \in CopyInputs

\* copy_iov(src, src_count, dst, dst_count, n) runs to its end or to a failed
\* assertion
CopyCall ==
    /\ cp.pc = "call"
    /\ LET r == copy_iov(cp.src, cp.dst, cp.n)
       IN  cp' = [cp EXCEPT !.pc = "done", !.out = r.dst_iov,
                            !.failed = r.failed]
    /\ UNCHANGED <<nqueues, qi, recs, thr, abort, loop, nchains, note, notes,
                   cap>>

NextCopy == CopyCall

SpecCopy == InitCopy /\ [][NextCopy]_vars

\* ------------------------------------------------------------- properties

\* A region list as one byte sequence
RECURSIVE Flat(_)
Flat(iov) == IF iov = <<>> THEN <<>> ELSE Head(iov) \o Flat(Tail(iov))

\* The lengths of the regions of a list
Lens(iov) == [r \in DOMAIN iov |-> Len(iov[r])]

\* A finished copy_iov call whose sizes the caller had checked
CopyChecked ==
    /\ cp.pc = "done"
    /\ iov_length(cp.src) >= cp.n
    /\ iov_length(cp.dst) >= cp.n

\* C2: after copy_iov with count n, the sources and the destinations each
\* holding at least n bytes, no assertion has failed, the first n bytes of the
\* flattened destination are the first n bytes of the flattened source, every
\* later destination byte is what it was, and the regions keep their lengths.
C2_CopyCorrect ==
    CopyChecked =>
        /\ cp.failed = 0
        /\ Lens(cp.out) = Lens(cp.dst)
        /\ \A k \in 1..iov_length(cp.dst) :
              Flat(cp.out)[k] = IF k <= cp.n THEN Flat(cp.src)[k]
                                ELSE Flat(cp.dst)[k]

\* A copy across three destination regions, one of them empty, from two
\* source regions whose boundary falls inside a destination region, that
\* stops inside the last source region
C2_Witness ==
    /\ CopyChecked
    /\ cp.n = 3
    /\ Lens(cp.src) = <<2, 2>>
    /\ Lens(cp.dst) = <<1, 0, 2>>
    /\ Flat(cp.out) = <<64 + 1, 64 + 2, 128 + 1>>

\* The bytes found in the regions of a list
BytesOf(iov) == UNION { { iov[r][k] : k \in DOMAIN iov[r] } : r \in DOMAIN iov }

\* Worker t holds a popped element; its total "out" length and "in" capacity
HasElem(t) == thr[t].elem # NoElem
OutLen(t) == iov_length(thr[t].elem.out_sg)
InCap(t) == iov_length(thr[t].elem.in_sg)

\* C1 (as the spec states it): while a worker is in the session processor its
\* record's in-progress reference is the element it popped, and every
\* virtio_send_msg call made there resolved that element, never a null one.
C1_QeIsPoppedElem ==
    \A t \in DOMAIN thr :
        thr[t].pc = "session" =>
            /\ recs[thr[t].qi].qe = thr[t].elem.id
            /\ thr[t].call.made =>
                  thr[t].call.elem = thr[t].elem.id /\ thr[t].call.elem # NULL

\* C3 (as the spec states it): a virtio_send_msg call whose reply is longer
\* than the "in" capacity of the element being processed, or whose element has
\* less "in" capacity than a reply header, returns -E2BIG and copies, pushes
\* and notifies nothing.
C3_TooLargeRejected ==
    \A t \in DOMAIN thr :
        ( /\ thr[t].call.made
          /\ thr[t].call.unique # 0
          /\ \/ InCap(t) < OutHeaderSize
             \/ InCap(t) < thr[t].call.tosend_len )
        => /\ thr[t].call.ret = -E2BIG
           /\ thr[t].call.ops = <<>>
           /\ thr[t].call.died = 0

\* C4: when a worker has popped an element whose total "out" length is below
\* the request header size or above the session's buffer size, the process has
\* died at one of the two assert(0) lines, the request buffer holds no byte of
\* that element, and the session processor was not entered for it.
C4_BadOutLenRejected ==
    \A t \in DOMAIN thr :
        (HasElem(t) /\ (OutLen(t) < InHeaderSize \/ OutLen(t) > BufSize))
        => /\ abort \in {317, 322}
           /\ thr[t].pc = "pop"
           /\ ~thr[t].call.made
           /\ BytesOf(<<thr[t].mem>>) \cap BytesOf(thr[t].elem.out_sg) = {}

\* A second element, longer than the buffer, is rejected while the buffer
\* still holds the request of the first
C4_Witness ==
    \E t \in DOMAIN thr :
        /\ abort = 322
        /\ thr[t].elem.id = 2
        /\ OutLen(t) = BufSize + 1
        /\ thr[t].nmalloc = 1
        /\ thr[t].mem[1] # Uninit

\* Worker t is at the virtqueue of its record: waiting on the record's kick
\* handle, reading the handle's counter, popping, or inside a session call
\* that pushes and notifies
Serves(t) ==
    \/ thr[t].pc \in {"pop", "session"}
    \/ thr[t].pc = "read" /\ thr[t].rd_fd # InvalidFd
    \/ /\ thr[t].pc = "ppoll"
       /\ thr[t].pf_fd # InvalidFd
       /\ thr[t].pf_fd = recs[thr[t].qi].kick_fd

\* C5 (as the spec states it): at most one worker at a time waits on, pops
\* from, pushes to or notifies the virtqueue of a queue record, whatever the
\* start and stop notifications were.
C5_OneWorkerPerQueue ==
    \A t, u \in DOMAIN thr :
        (t # u /\ thr[t].qi = thr[u].qi) => ~(Serves(t) /\ Serves(u))

\* C6: a virtio_send_msg call whose header has unique = 0 dies at the
\* assertion on out->unique, having copied, pushed and notified nothing.
C6_ZeroUniqueRejected ==
    \A t \in DOMAIN thr :
        (thr[t].call.made /\ thr[t].call.unique = 0)
        => /\ thr[t].call.died = 189
           /\ abort = 189
           /\ thr[t].call.ops = <<>>

\* The session processor has answered a popped request with a reply whose
\* unique is 0
C6_Witness ==
    \E t \in DOMAIN thr :
        /\ HasElem(t)
        /\ thr[t].call.made
        /\ thr[t].call.unique = 0
        /\ thr[t].nsend = 1
        /\ abort = 189

\* The assertion lines of copy_iov and the line of the unchecked memcpy of
\* copy_from_iov
CopyFailures == {116, 133, 144, 158}

\* C7: every flatten stays within the request buffer, and every copy_iov
\* that virtio_send_msg runs has a byte count within the reply's total length
\* and within the total length of the "in" regions it was given as the
\* destination; no assertion of copy_iov fails and copy_from_iov writes
\* nothing beyond the buffer.
C7_CopiesChecked ==
    /\ abort \notin CopyFailures
    /\ \A t \in DOMAIN thr :
          /\ thr[t].pc = "session" => OutLen(t) <= Len(thr[t].mem)
          /\ \A k \in DOMAIN thr[t].call.ops :
                thr[t].call.ops[k].op = "copy" =>
                    /\ thr[t].call.ops[k].len <= thr[t].call.tosend_len
                    /\ thr[t].call.ops[k].len <= thr[t].call.in_len

\* A chain whose "out" regions fill the request buffer exactly has been
\* flattened, and the session processor has sent a reply for it: the call
\* ended at the load of line 196 with no copy made
C7_Witness ==
    \E t \in DOMAIN thr :
        /\ thr[t].pc = "session"
        /\ OutLen(t) = BufSize
        /\ thr[t].size = BufSize
        /\ thr[t].call.made
        /\ thr[t].call.unique # 0
        /\ thr[t].call.ops = <<>>
        /\ abort = 196

\* C8 (as the spec states it): a virtio_send_msg call for an accepted element
\* whose reply fits the element's "in" capacity pushes that element with the
\* reply's total length and then notifies, and the call returns so that the
\* worker frees the element after the push.
C8_PushThenNotify ==
    \A t \in DOMAIN thr :
        ( /\ thr[t].call.made
          /\ thr[t].call.unique # 0
          /\ InCap(t) >= OutHeaderSize
          /\ InCap(t) >= thr[t].call.tosend_len )
        => /\ thr[t].call.died = 0
           /\ \E k \in DOMAIN thr[t].call.ops :
                 /\ thr[t].call.ops[k] =
                       [op |-> "push", elem |-> thr[t].elem.id,
                        len |-> thr[t].call.tosend_len]
                 /\ k < Len(thr[t].call.ops)
                 /\ thr[t].call.ops[k + 1].op = "notify"
                 /\ \A m \in 1..k : thr[t].call.ops[m].op # "notify"

\* Queue index i is started: it has a record whose kick handle is valid
Started(i) ==
    i < nqueues /\ qi[i] # NULL /\ recs[qi[i]].kick_fd # InvalidFd

\* This step is the dispatch of a start notification for index j
StartStep(j) ==
    loop = "ppoll" /\ note' = [qidx |-> j, started |-> TRUE]

\* C9: a start notification for index j leaves every other started index i > 0
\* with the same table entry, the same record (queue index, kick handle,
\* thread id, in-progress reference) and the same worker thread, also when
\* the table grows.
C9_StartLeavesOthers ==
    [][\A j \in QIdx, i \in 1..MaxQidx :
          (StartStep(j) /\ i # j /\ Started(i)) =>
              /\ qi'[i] = qi[i]
              /\ recs'[qi[i]] = recs[qi[i]]
              /\ thr'[recs[qi[i]].thread] = thr[recs[qi[i]].thread]]_vars

\* Index 1 was started and is unchanged after the start of index 2, which
\* grew the table from 2 to 3 entries
C9_Witness ==
    /\ note = [qidx |-> 2, started |-> TRUE]
    /\ abort = 0
    /\ nqueues = 3
    /\ Len(thr) = 2
    /\ qi[1] = 1 /\ qi[2] = 2
    /\ recs[1].qidx = 1 /\ recs[1].kick_fd = DeviceKickFd(1)
    /\ recs[1].thread = 1
    /\ recs[2].kick_fd = DeviceKickFd(2)

\* The latest notification for index j was a start that was not refused
LatestStart(j) == notes[j].last = "start" /\ abort # 378

\* C10: for every index j > 0, after a start that was not refused the record's
\* kick handle is the device's handle of that start; after a stop it is -1;
\* and the assertion that the queue is not already started fails exactly at a
\* start for an index whose latest notification was a start.
C10_KickHandleFollows ==
    /\ [](\A j \in 1..MaxQidx :
            /\ LatestStart(j) =>
                  /\ j < nqueues /\ qi[j] # NULL
                  /\ recs[qi[j]].kick_fd = notes[j].fd
                  /\ recs[qi[j]].kick_fd # InvalidFd
            /\ (notes[j].last = "stop" /\ j < nqueues /\ qi[j] # NULL) =>
                  recs[qi[j]].kick_fd = InvalidFd)
    /\ [][(abort = 0 /\ abort' = 378) <=>
            \E j \in 1..MaxQidx :
                StartStep(j) /\ notes[j].last = "start"]_vars

\* Index 1 after start, stop, start: two workers were created for its record,
\* which holds the handle of the second start
C10_Witness ==
    /\ abort = 0
    /\ notes[1] = [last |-> "start", fd |-> DeviceKickFd(2)]
    /\ Len(thr) = 2
    /\ thr[1].qi = thr[2].qi
    /\ recs[qi[1]].kick_fd = DeviceKickFd(2)

\* C11: a worker allocates its request buffer at most once, at the first
\* element it pops; while it holds an element the buffer is that one
\* allocation, of se->bufsize bytes, whatever the number of elements and kicks.
C11_BufferAllocatedOnce ==
    \A t \in DOMAIN thr :
        /\ thr[t].nmalloc <= 1
        /\ HasElem(t) => thr[t].nmalloc = 1 /\ Len(thr[t].mem) = BufSize
        /\ thr[t].mem # NoMem => thr[t].nmalloc = 1 /\ Len(thr[t].mem) = BufSize

\* A worker is processing its second element in the buffer allocated for the
\* first
C11_Witness ==
    \E t \in DOMAIN thr :
        /\ thr[t].pc = "session"
        /\ thr[t].elem.id = 2
        /\ nchains = 2
        /\ Len(thr) = 1
        /\ thr[t].nmalloc = 1
        /\ Len(thr[t].mem) = BufSize

\* C12: in every step the queue table does not shrink, an entry that holds a
\* record keeps holding that record, no record is removed and none changes
\* its queue index, the entries a growth adds are empty except the one of the
\* started index, and a stop changes nothing of a record but its kick handle,
\* which becomes -1.
C12_TableOnlyGrows ==
    [][/\ nqueues' >= nqueues
       /\ Len(recs') >= Len(recs)
       /\ \A i \in 0..(nqueues - 1) :
             qi[i] # NULL =>
                 /\ qi'[i] = qi[i]
                 /\ recs'[qi[i]].qidx = recs[qi[i]].qidx
       /\ \A i \in nqueues..(nqueues' - 1) :
             i # note'.qidx => qi'[i] = NULL
       /\ \A a \in DOMAIN recs :
             recs'[a] # recs[a] /\ ~note'.started =>
                 recs'[a] = [recs[a] EXCEPT !.kick_fd = InvalidFd]]_vars

\* The start of index 2 grew the empty table to three entries, of which only
\* entry 2 holds a record; the stop of index 2 kept the record
C12_Witness ==
    /\ abort = 0
    /\ nqueues = 3
    /\ qi[0] = NULL /\ qi[1] = NULL /\ qi[2] = 1
    /\ note = [qidx |-> 2, started |-> FALSE]
    /\ recs[1].qidx = 2
    /\ recs[1].kick_fd = InvalidFd

\* This step is the dispatch of a notification for index j, start or stop
NotifyStep(j) ==
    loop = "ppoll" /\ note' # NoNote /\ note'.qidx = j

\* C13: a start or stop notification for index 0 leaves the table length, the
\* table, every record and every worker as they were, creates no worker and
\* fails no assertion.
C13_QueueZeroNoOp ==
    [][NotifyStep(0) => UNCHANGED <<nqueues, qi, recs, thr, abort>>]_vars

\* A start for index 0 arrived while index 1 was started, and there is still
\* one worker, one record and a table of two entries
C13_Witness ==
    /\ note = [qidx |-> 0, started |-> TRUE]
    /\ abort = 0
    /\ nqueues = 2
    /\ qi[0] = NULL
    /\ Len(recs) = 1 /\ Len(thr) = 1
    /\ recs[qi[1]].kick_fd = DeviceKickFd(1)

\* Worker t exists and the record it serves has been stopped; worker t has
\* left its loop
StopSeenBy(t) ==
    IF t \in DOMAIN thr THEN recs[thr[t].qi].kick_fd = InvalidFd ELSE FALSE
HasStopped(t) ==
    IF t \in DOMAIN thr THEN thr[t].pc = "stopped" ELSE FALSE

\* C14 (as the spec states it): once the record a worker serves has been
\* stopped, the worker reaches its terminal state (or the process ends).
C14_StopLeadsToStopped ==
    \A t \in 1..MaxThreads :
        StopSeenBy(t) ~> (~Running \/ HasStopped(t))

\* C15: while a worker is in the session processor, the recorded request
\* length fbuf.size is the sum of the lengths of the element's "out" regions,
\* and the first fbuf.size bytes of the request buffer are those regions'
\* bytes, region after region.
C15_RequestIsFlattenedOut ==
    \A t \in DOMAIN thr :
        thr[t].pc = "session" =>
            /\ thr[t].size = OutLen(t)
            /\ thr[t].size <= Len(thr[t].mem)
            /\ SubSeq(thr[t].mem, 1, thr[t].size) = Flat(thr[t].elem.out_sg)

\* The second request of a worker, of three regions (one empty) and shorter
\* than the first, lies in the buffer before what is left of the first
C15_Witness ==
    \E t \in DOMAIN thr :
        /\ thr[t].pc = "session"
        /\ thr[t].elem.id = 2
        /\ Lens(thr[t].elem.out_sg) = <<24, 0, 16>>
        /\ thr[t].size = 40
        /\ thr[t].mem[41] = 64 * 5 + 41

\* C16: for every worker, (a) it holds an element only from the pop of that
\* element to the end of that element's session call; (b) it pops only when
\* it holds none, and the element popped is the next one of the queue; (c) the
\* return of the session call leaves the in-progress reference null and the
\* element released, and takes the worker to the next pop; (d) it goes back to
\* waiting from draining only when a pop found no element; (e) a
\* virtio_send_msg call never uses an element other than the one the worker
\* holds.
C16_OneElementAtATime ==
    /\ [](\A t \in 1..MaxThreads :
            IF t \in DOMAIN thr
            THEN /\ (HasElem(t) /\ abort = 0) => thr[t].pc = "session"
                 /\ thr[t].pc \in {"top", "ppoll", "read", "stopped"} =>
                       ~HasElem(t)
                 /\ \A k \in DOMAIN thr[t].call.ops :
                       thr[t].call.ops[k].elem \in {NULL, thr[t].elem.id}
            ELSE TRUE)
    /\ [][\A t \in DOMAIN thr :
            /\ thr'[t].elem.id # thr[t].elem.id /\ thr'[t].elem # NoElem =>
                  /\ thr[t].pc = "pop" /\ thr[t].elem = NoElem
                  /\ thr'[t].elem.id = nchains + 1 /\ nchains' = nchains + 1
            /\ thr[t].pc = "session" /\ thr'[t].pc # "session" =>
                  /\ thr'[t].pc = "pop" /\ thr'[t].elem = NoElem
                  /\ recs'[thr[t].qi].qe = NULL
            /\ thr[t].pc \in {"pop", "session"} /\ thr'[t].pc = "top" =>
                  /\ thr[t].pc = "pop" /\ nchains' = nchains
                  /\ thr'[t].elem = NoElem]_vars

\* One worker has processed and released two elements and is at the next pop
C16_Witness ==
    /\ abort = 0
    /\ Len(thr) = 1
    /\ nchains = 2
    /\ thr[1].pc = "pop"
    /\ thr[1].elem = NoElem
    /\ recs[thr[1].qi].qe = NULL

\* Worker t comes out of this step without an element, none having been popped
NothingPopped(t) ==
    thr'[t].elem = NoElem /\ nchains' = nchains /\ abort' = abort

\* C17: in every step in which worker t's ppoll is interrupted the worker goes
\* back to the top of its loop, to wait again, and pops nothing; in every step
\* in which ppoll fails otherwise, reports POLLERR, POLLHUP or POLLNVAL, or
\* eventfd_read fails, the worker leaves its loop and pops nothing.
C17_WaitOutcomes ==
    [][\A t \in DOMAIN thr :
          (thr[t].pc \in {"ppoll", "read"} /\ thr'[t] # thr[t]) =>
             /\ WorkerPollError(t, TRUE) =>
                   thr'[t].pc = "top" /\ NothingPopped(t)
             /\ ( \/ WorkerPollError(t, FALSE)
                  \/ WorkerPollHup(t)
                  \/ \E o \in BOOLEAN : WorkerRead(t, FALSE, o) ) =>
                   thr'[t].pc = "stopped" /\ NothingPopped(t)]_vars

\* The worker of queue 1 has left its loop although the queue was not
\* stopped, and no element was popped
C17_Witness ==
    /\ abort = 0
    /\ Len(thr) = 1
    /\ thr[1].pc = "stopped"
    /\ notes[1].last = "start"
    /\ recs[thr[1].qi].kick_fd = DeviceKickFd(1)
    /\ thr[1].elem = NoElem
    /\ nchains = 0

\* C18: virtio_loop ends in exactly the steps in which the session is found
\* exited at the head of the loop, ppoll fails with an error other than
\* EINTR, ppoll reports POLLERR, POLLHUP or POLLNVAL, or vu_dispatch fails; an
\* interrupted ppoll takes it back to the head with nothing dispatched; a
\* notification is dispatched only out of a ppoll, one per ppoll: the loop is
\* back at its head after it, or the process has ended inside vu_dispatch;
\* and no step of the loop pops, pushes or notifies, or changes a worker
\* otherwise.
C18_ControlLoop ==
    [][/\ (loop # "exit" /\ loop' = "exit") <=>
             \/ LoopHead(TRUE)
             \/ LoopPollError(FALSE)
             \/ LoopPollHup
             \/ DispatchFail
       /\ LoopPollError(TRUE) =>
             /\ loop' = "head"
             /\ UNCHANGED <<nqueues, qi, recs, thr, abort, note, notes>>
       /\ note' # note /\ note' # NoNote =>
             /\ loop = "ppoll"
             /\ IF abort' = 0 THEN loop' = "head" ELSE loop' = "ppoll"
       /\ loop' # loop =>
             /\ nchains' = nchains
             /\ \A t \in DOMAIN thr : thr'[t] = thr[t]]_vars

\* virtio_loop has returned while the worker of a started queue is inside the
\* session processor
C18_Witness ==
    /\ loop = "exit"
    /\ abort = 0
    /\ Len(thr) = 1
    /\ thr[1].pc = "session"
    /\ recs[thr[1].qi].kick_fd = DeviceKickFd(1)

\* C19 (as the spec states it): a stop notification for an index j > 0 that is
\* within the table but has no record completes without a fault and leaves
\* the table, the records and the workers unchanged.
C19_StopOfEmptyEntry ==
    [][\A j \in 1..MaxQidx :
          (NotifyStep(j) /\ ~note'.started /\ j < nqueues /\ qi[j] = NULL) =>
              UNCHANGED <<nqueues, qi, recs, thr, abort>>]_vars

====
